---- MODULE Spec2Model ----
(***************************************************************************)
(* Model of the document assembly of od-letter (src/app.py):               *)
(* generate_student_document and its helpers add_senior_student_list and   *)
(* add_first_year_table.  The document is the sequence of block elements   *)
(* (headings, list paragraphs, tables) python-docx appends to the body.    *)
(***************************************************************************)
EXTENDS Integers, Sequences, FiniteSets, TLC

VARIABLES
    students,              \* the argument of generate_student_document: a list of dicts
    doc,                   \* the body of the docx.Document being built
    categorized_students,  \* dict: category -> list of (references to) students
    ci,                    \* position of the category loop in category_order
    pc,                    \* "start", "categories", "save", "done", "failed"
    result                 \* "none", "stream", or the exception that propagated

vars == <<students, doc, categorized_students, ci, pc, result>>

\* Largest number of records in a schema-valid input list (Spec).
MaxLen == 3
\* Largest number of records in an arbitrary input list (SpecAny).
MaxLenAny == 3

(***************************************************************************)
(* Strings.  Python compares str values by code point, lexicographically.  *)
(***************************************************************************)
CodePoints(s) ==
    CASE s = ""    -> <<>>
      [] s = "CSE" -> <<67, 83, 69>>
      [] s = "ECE" -> <<69, 67, 69>>
      [] s = "IT"  -> <<73, 84>>

RECURSIVE SeqLess(_, _)
SeqLess(a, b) ==
    IF b = <<>> THEN FALSE
    ELSE IF a = <<>> THEN TRUE
    ELSE IF Head(a) # Head(b) THEN Head(a) < Head(b)
    ELSE SeqLess(Tail(a), Tail(b))

StrLess(a, b) == SeqLess(CodePoints(a), CodePoints(b))

(***************************************************************************)
(* sorted(iterable, key=...): a stable ascending sort.  The items are      *)
(* records [key, val]; an item goes after every item whose key is not      *)
(* greater, so equal keys keep their input order.                          *)
(***************************************************************************)
RECURSIVE Insort(_, _)
Insort(s, x) ==
    IF s = <<>> THEN <<x>>
    ELSE IF StrLess(x.key, Head(s).key) THEN <<x>> \o s
    ELSE <<Head(s)>> \o Insort(Tail(s), x)

RECURSIVE sorted(_)
sorted(s) ==
    IF s = <<>> THEN <<>>
    ELSE Insort(sorted(SubSeq(s, 1, Len(s) - 1)), s[Len(s)])

Vals(s) == [i \in 1..Len(s) |-> s[i].val]

\* The keys of a dict filled by "if k not in d: d[k] = []", in insertion order.
RECURSIVE DictKeys(_)
DictKeys(ks) ==
    IF ks = <<>> THEN <<>>
    ELSE LET front == DictKeys(SubSeq(ks, 1, Len(ks) - 1))
             k     == ks[Len(ks)]
         IN  IF \E j \in 1..Len(front) : front[j] = k THEN front ELSE Append(front, k)

(***************************************************************************)
(* Input records: dicts whose keys may be absent.                          *)
(***************************************************************************)
\* Mutant: the categories in another order.
category_order_reversed == <<"Uncategorized", "Dayscholar", "Hostel">>

category_order == <<"Hostel", "Dayscholar", "Uncategorized">>
year_order     == <<"Fourth", "Third", "Second", "First">>

DeptValues == {"", "CSE", "ECE"}
YearValues == {"Third", "Second", "First", ""}

\* Records that satisfy the input schema: four mandatory keys, category absent or "Hostel".
ValidRecords ==
    [full_name : {"N"}, registration_number : {"R"}, department : DeptValues, year : YearValues]
    \cup
    [full_name : {"N"}, registration_number : {"R"}, department : DeptValues, year : YearValues,
     category : {"Hostel"}]

ValidInputs == UNION {[1..n -> ValidRecords] : n \in 0..MaxLen}

\* Arbitrary records: any category value, a section, a mandatory key missing.
AnyRecords ==
    [full_name : {"N"}, registration_number : {"R"}, department : {"CSE"},
     year : {"Fourth", "First"}]
    \cup
    [full_name : {"N"}, registration_number : {"R"}, department : {"CSE"},
     year : {"Fourth", "First"}, category : {"Hostel", "Dayscholar", "Other"}]
    \cup
    [full_name : {"N"}, registration_number : {"R"}, department : {"ECE", ""},
     year : {"Second"}, category : {"Dayscholar"}]
    \cup
    [full_name : {"N"}, registration_number : {"R"}, department : {"IT"},
     year : {"First"}, section : {"A"}]
    \cup
    [full_name : {"N"}, registration_number : {"R"}, department : {"CSE"}]
    \cup
    [full_name : {"N"}, registration_number : {"R"}, department : {"CSE"}, category : {"Other"}]
    \cup
    [full_name : {"N"}, registration_number : {"R"}, year : {"Second", "First", ""}]
    \cup
    [full_name : {"N"}, department : {"CSE"}, year : {"Second", "First", ""}]
    \cup
    [registration_number : {"R"}, department : {"CSE"}, year : {"Second", "First", ""}]

AnyInputs == UNION {[1..n -> AnyRecords] : n \in 0..MaxLenAny}

Has(student, key) == key \in DOMAIN student

(***************************************************************************)
(* Document elements.  scope records the loop variables (category_name,    *)
(* year, dept_name) in scope where the element is added, "-" when the      *)
(* call is outside that loop; student is the list item the element is      *)
(* rendered from.                                                          *)
(***************************************************************************)
Scope(c, y, d) == [category_name |-> c, year |-> y, dept_name |-> d]

\* doc.add_heading(text, level): python-docx adds a run only for a non-empty text.
Heading(level, text, scope) ==
    [kind |-> "heading", level |-> level, text |-> text,
     runs |-> IF text = "" THEN 0 ELSE 1,
     num |-> 0, student |-> 0, full_name |-> "", registration_number |-> "",
     header |-> <<>>, rows |-> <<>>, scope |-> scope]

\* One paragraph of the senior list with the first `runs` of its three runs:
\* "<num>.\t<full_name>\t", the en dash (U+2013), "\t<registration_number>".
Paragraph(num, student, runs, scope) ==
    [kind |-> "paragraph", level |-> 0, text |-> IF runs >= 2 THEN "EN DASH" ELSE "",
     runs |-> runs,
     num |-> num, student |-> student,
     full_name |-> IF runs >= 1 THEN students[student].full_name ELSE "",
     registration_number |-> IF runs >= 3 THEN students[student].registration_number ELSE "",
     header |-> <<>>, rows |-> <<>>, scope |-> scope]

headers == <<"S.No.", "Name", "SEC ID", "Section", "Department">>

Table(rows, scope) ==
    [kind |-> "table", level |-> 0, text |-> "", runs |-> 0,
     num |-> 0, student |-> 0, full_name |-> "", registration_number |-> "",
     header |-> headers, rows |-> rows, scope |-> scope]

\* A table row: filled is FALSE for a row that add_row() created and no cell was written.
Row(num, student) ==
    [filled |-> TRUE, num |-> num, student |-> student,
     full_name |-> students[student].full_name,
     registration_number |-> students[student].registration_number,
     section |-> IF Has(students[student], "section") THEN students[student].section ELSE "N/A",
     department |-> students[student].department]

EmptyRow ==
    [filled |-> FALSE, num |-> 0, student |-> 0, full_name |-> "",
     registration_number |-> "", section |-> "", department |-> ""]

Ok(d)        == [doc |-> d, err |-> ""]
Raise(d, e)  == [doc |-> d, err |-> e]

\* enumerate(sorted_students, 1)
RowNumber(i) == i

(***************************************************************************)
(* add_senior_student_list(doc, students)                                  *)
(***************************************************************************)
\* The loop "for i, student in enumerate(students, start)": k is the position
\* in the list, start + k - 1 the number i.
RECURSIVE SeniorParagraphs(_, _, _, _, _)
SeniorParagraphs(d, list, k, start, scope) ==
    IF k > Len(list) THEN Ok(d)
    ELSE IF ~Has(students[list[k]], "full_name")
         THEN Raise(Append(d, Paragraph(start + k - 1, list[k], 0, scope)), "KeyError")
    ELSE IF ~Has(students[list[k]], "registration_number")
         THEN Raise(Append(d, Paragraph(start + k - 1, list[k], 2, scope)), "KeyError")
    ELSE SeniorParagraphs(Append(d, Paragraph(start + k - 1, list[k], 3, scope)),
                          list, k + 1, start, scope)

\* Mutant: the numbering goes on from the paragraphs already in the document.
add_senior_student_list_continued(d, list, scope) ==
    SeniorParagraphs(d, list, 1,
                     1 + Cardinality({p \in 1..Len(d) : d[p].kind = "paragraph"}), scope)

add_senior_student_list(d, list, scope) == SeniorParagraphs(d, list, 1, 1, scope)

(***************************************************************************)
(* add_first_year_table(doc, students)                                     *)
(***************************************************************************)
RECURSIVE TableRows(_, _, _)
TableRows(rows, list, i) ==
    IF i > Len(list) THEN [rows |-> rows, err |-> ""]
    ELSE IF ~Has(students[list[i]], "full_name")
            \/ ~Has(students[list[i]], "registration_number")
         THEN [rows |-> Append(rows, EmptyRow), err |-> "KeyError"]
    ELSE TableRows(Append(rows, Row(RowNumber(i), list[i])), list, i + 1)

\* Mutant: the rows keep the order of the list, no sort.
SortByDepartment_unsorted(list) == list

\* sorted(students, key=lambda s: s['department'])
SortByDepartment(list) ==
    Vals(sorted([i \in 1..Len(list) |->
                    [key |-> students[list[i]].department, val |-> list[i]]]))

add_first_year_table(d, list, scope) ==
    IF list = <<>> THEN Ok(d)
    ELSE IF \E i \in 1..Len(list) : ~Has(students[list[i]], "department")
         THEN Raise(Append(d, Table(<<>>, scope)), "KeyError")
    ELSE LET r == TableRows(<<>>, SortByDepartment(list), 1)
         IN  [doc |-> Append(d, Table(r.rows, scope)), err |-> r.err]

(***************************************************************************)
(* generate_student_document(students)                                     *)
(***************************************************************************)
\* student.get("category", "Uncategorized")
Category(student) == IF Has(student, "category") THEN student.category ELSE "Uncategorized"

\* Step 1: the dict built by the grouping loop over students.
Categorized(ss) ==
    [c \in {Category(ss[i]) : i \in 1..Len(ss)} |->
        SelectSeq([i \in 1..Len(ss) |-> i], LAMBDA i : Category(ss[i]) = c)]

\* dict.get(key): None, which "not student_list" treats like an empty list.
Get(dict, key) == IF key \in DOMAIN dict THEN dict[key] ELSE <<>>

\* The list a grouping loop collects under one key, in the order of `list`.
Bucket(list, field, k) == SelectSeq(list, LAMBDA i : students[i][field] = k)

\* f"{year} Year"
YearHeadingText(year) ==
    CASE year = "Fourth" -> "Fourth Year"
      [] year = "Third"  -> "Third Year"
      [] year = "Second" -> "Second Year"
      [] year = "First"  -> "First Year"

\* Mutant: the department names in the dict's insertion order, no sort.
SortedDeptNames_unsorted(list) ==
    DictKeys([i \in 1..Len(list) |-> students[list[i]].department])

\* sorted(students_by_dept.keys())
SortedDeptNames(list) ==
    LET keys == DictKeys([i \in 1..Len(list) |-> students[list[i]].department])
    IN  Vals(sorted([j \in 1..Len(keys) |-> [key |-> keys[j], val |-> keys[j]]]))

\* for dept_name in sorted(students_by_dept.keys()): heading, then the numbered list
RECURSIVE DeptLoop(_, _, _, _, _, _)
DeptLoop(d, c, y, list, names, k) ==
    IF k > Len(names) THEN Ok(d)
    ELSE LET h  == Heading(3, names[k], Scope(c, y, names[k]))
             d1 == Append(d, h)
         IN  IF h.runs = 0 THEN Raise(d1, "IndexError")
             ELSE LET r == add_senior_student_list(
                               d1, Bucket(list, "department", names[k]), Scope(c, y, names[k]))
                  IN  IF r.err # "" THEN r ELSE DeptLoop(r.doc, c, y, list, names, k + 1)

\* Step 3 for a senior year: group by department, render each department
SeniorYear(d, c, y, list) ==
    IF \E i \in 1..Len(list) : ~Has(students[list[i]], "department")
    THEN Raise(d, "KeyError")
    ELSE DeptLoop(d, c, y, list, SortedDeptNames(list), 1)

\* for year in year_order: skip an empty year, else heading and content
RECURSIVE YearLoop(_, _, _, _)
YearLoop(d, c, list, k) ==
    IF k > Len(year_order) THEN Ok(d)
    ELSE LET year == year_order[k]
             year_student_list == Bucket(list, "year", year)
         IN  IF year_student_list = <<>> THEN YearLoop(d, c, list, k + 1)
             ELSE LET d1 == Append(d, Heading(2, YearHeadingText(year), Scope(c, year, "-")))
                      r  == IF year = "First"
                            THEN add_first_year_table(d1, year_student_list, Scope(c, year, "-"))
                            ELSE SeniorYear(d1, c, year, year_student_list)
                  IN  IF r.err # "" THEN r ELSE YearLoop(r.doc, c, list, k + 1)

\* The body of the category loop for a non-empty category.
CategoryBody(d, category_name, student_list) ==
    LET d1 == IF category_name = "Uncategorized" THEN d
              ELSE Append(d, Heading(1, category_name, Scope(category_name, "-", "-")))
    IN  IF \E i \in 1..Len(student_list) : ~Has(students[student_list[i]], "year")
        THEN Raise(d1, "KeyError")
        ELSE YearLoop(d1, category_name, student_list, 1)

\* Mutant: no "continue" for an empty category.
CategoryIteration_noskip(d, category_name, student_list) ==
    CategoryBody(d, category_name, student_list)

\* "if not student_list: continue", else the body of the loop.
CategoryIteration(d, category_name, student_list) ==
    IF student_list = <<>> THEN Ok(d) ELSE CategoryBody(d, category_name, student_list)

Entry ==
    /\ doc = <<>>
    /\ categorized_students = <<>>
    /\ ci = 1
    /\ pc = "start"
    /\ result = "none"

\* The caller passes a list of records that satisfy the schema.
Init == students \in ValidInputs /\ Entry

\* The caller passes whatever json.loads returned.
InitAny == students \in AnyInputs /\ Entry

\* Document(), the title heading and Step 1.
Start ==
    /\ pc = "start"
    /\ doc' = <<Heading(0, "VOLUNTEERS LIST", Scope("-", "-", "-"))>>
    /\ categorized_students' = Categorized(students)
    /\ pc' = "categories"
    /\ UNCHANGED <<students, ci, result>>

\* One iteration of "for category_name in category_order".
CategoryStep ==
    /\ pc = "categories"
    /\ LET category_name == category_order[ci]
           student_list  == Get(categorized_students, category_name)
           r == CategoryIteration(doc, category_name, student_list)
       IN  /\ doc' = r.doc
           /\ IF r.err # ""
              THEN pc' = "failed" /\ result' = r.err /\ ci' = ci
              ELSE /\ result' = result
                   /\ ci' = ci + 1
                   /\ pc' = IF ci = Len(category_order) THEN "save" ELSE "categories"
    /\ UNCHANGED <<students, categorized_students>>

\* doc.save(file_stream); return file_stream
Save ==
    /\ pc = "save"
    /\ result' = "stream"
    /\ pc' = "done"
    /\ UNCHANGED <<students, doc, categorized_students, ci>>

Next == Start \/ CategoryStep \/ Save

Spec == Init /\ [][Next]_vars

SpecAny == InitAny /\ [][Next]_vars

(***************************************************************************)
(* Vocabulary of the properties.                                           *)
(***************************************************************************)
Idx == 1..Len(students)
Pos == 1..Len(doc)

Mandatory == {"full_name", "registration_number", "department", "year"}

SchemaValid(s) ==
    /\ Mandatory \subseteq DOMAIN s
    /\ Has(s, "category") => s.category = "Hostel"

AllValid == \A i \in Idx : SchemaValid(students[i])

IsHeading(p, l) == doc[p].kind = "heading" /\ doc[p].level = l
IsParagraph(p)  == doc[p].kind = "paragraph"
IsTable(p)      == doc[p].kind = "table"

\* The students a document element renders.
Rendered(p) ==
    IF IsParagraph(p) THEN {doc[p].student}
    ELSE IF IsTable(p)
         THEN {doc[p].rows[r].student : r \in {x \in 1..Len(doc[p].rows) : doc[p].rows[x].filled}}
    ELSE {}

\* How many list paragraphs and table rows render student i.
RenderCount(i) ==
    Cardinality({p \in Pos : IsParagraph(p) /\ doc[p].student = i})
    + Cardinality(UNION {{<<p, r>> : r \in {x \in 1..Len(doc[p].rows) :
                                              doc[p].rows[x].student = i}} :
                         p \in {q \in Pos : IsTable(q)}})

\* The nearest heading of level l before position p, 0 when there is none.
NearestHeading(p, l) ==
    LET S == {q \in 1..(p - 1) : IsHeading(q, l)}
    IN  IF S = {} THEN 0 ELSE CHOOSE q \in S : \A x \in S : x <= q

CatRank(c) ==
    CASE c = "Hostel" -> 1 [] c = "Dayscholar" -> 2 [] c = "Uncategorized" -> 3 [] OTHER -> 0

YearRank(text) ==
    CASE text = "Fourth Year" -> 1 [] text = "Third Year" -> 2
      [] text = "Second Year" -> 3 [] text = "First Year" -> 4 [] OTHER -> 0

Buckets == {"Hostel", "Dayscholar", "Uncategorized"}
Seniors == {"Second", "Third", "Fourth"}

\* The students of the input whose category (absent: Uncategorized) and year are c and y.
Group(c, y) ==
    {i \in Idx : /\ Category(students[i]) = c
                 /\ Has(students[i], "year")
                 /\ students[i].year = y}

DeptGroup(c, y, d) ==
    {i \in Group(c, y) : Has(students[i], "department") /\ students[i].department = d}

(***************************************************************************)
(* C1. For every input whose records all have the four mandatory keys and  *)
(* a category that is absent or "Hostel", generate_student_document does   *)
(* not raise: in particular not for a senior record with department "".    *)
(***************************************************************************)
C1_ValidInputNeverRaises == AllValid => pc # "failed"

(***************************************************************************)
(* C2. Completeness: when a document is returned for schema-conforming     *)
(* records, every input record is rendered exactly once, as one table row  *)
(* or one list paragraph.                                                  *)
(***************************************************************************)
C2_Completeness ==
    (pc = "done" /\ AllValid) => \A i \in Idx : RenderCount(i) = 1

(***************************************************************************)
(* C3. If some record lacks a mandatory key, generate_student_document     *)
(* fails and returns no stream, whatever the other fields and records.     *)
(***************************************************************************)
C3_MissingKeyFails ==
    (\E i \in Idx : ~(Mandatory \subseteq DOMAIN students[i])) => pc # "done"

(***************************************************************************)
(* C4. Ordering: every body element belongs to one of the three buckets,   *)
(* the buckets' contents follow each other in the order Hostel,            *)
(* Dayscholar, Uncategorized, every rendered student is in the content of  *)
(* its own category, and within a category the level-2 headings are in the *)
(* order Fourth, Third, Second, First, each at most once.                  *)
(***************************************************************************)
C4_Ordering ==
    /\ \A p \in Pos \ {1} : CatRank(doc[p].scope.category_name) \in 1..3
    /\ \A p \in Pos \ {1} :
          /\ p < Len(doc) =>
                CatRank(doc[p].scope.category_name) <= CatRank(doc[p + 1].scope.category_name)
          /\ IsHeading(p, 1) => doc[p].text = doc[p].scope.category_name
          /\ \A i \in Rendered(p) \ {0} : Category(students[i]) = doc[p].scope.category_name
    /\ \A p \in Pos : \A q \in Pos :
          (/\ p < q
           /\ IsHeading(p, 2)
           /\ IsHeading(q, 2)
           /\ doc[p].scope.category_name = doc[q].scope.category_name)
          => /\ YearRank(doc[p].text) >= 1
             /\ YearRank(doc[p].text) < YearRank(doc[q].text)

\* A returned document with content of all three buckets, from an input that
\* lists them in the opposite order.
C4_Witness ==
    /\ pc = "done"
    /\ Len(students) = 3
    /\ Category(students[1]) = "Uncategorized"
    /\ Category(students[2]) = "Dayscholar"
    /\ Category(students[3]) = "Hostel"
    /\ \A c \in Buckets : \E p \in Pos : Rendered(p) # {} /\ doc[p].scope.category_name = c

(***************************************************************************)
(* C5. Department sort: within a (category, senior year) group the level-3 *)
(* headings are in strictly ascending order of the department string, and  *)
(* a returned document has one heading for each department of the group.   *)
(***************************************************************************)
C5_DepartmentSort ==
    /\ \A p \in Pos : \A q \in Pos :
          (/\ p < q
           /\ IsHeading(p, 3)
           /\ IsHeading(q, 3)
           /\ doc[p].scope.category_name = doc[q].scope.category_name
           /\ doc[p].scope.year = doc[q].scope.year)
          => StrLess(doc[p].text, doc[q].text)
    /\ pc = "done" =>
          \A c \in Buckets : \A y \in Seniors :
             {doc[p].text : p \in {q \in Pos : /\ IsHeading(q, 3)
                                               /\ doc[q].scope.category_name = c
                                               /\ doc[q].scope.year = y}}
             = {students[i].department : i \in Group(c, y)}

\* A returned document with the headings CSE then ECE in a group whose records
\* came in the order ECE, CSE.
C5_Witness ==
    /\ pc = "done"
    /\ Len(students) >= 2
    /\ students[1].department = "ECE"
    /\ students[2].department = "CSE"
    /\ \E p \in Pos : \E q \in Pos :
          /\ p < q
          /\ IsHeading(p, 3) /\ doc[p].text = "CSE"
          /\ IsHeading(q, 3) /\ doc[q].text = "ECE"
          /\ doc[p].scope = [doc[q].scope EXCEPT !.dept_name = "CSE"]
          /\ q < Len(doc)
          /\ 2 \in Rendered(p + 1)
          /\ 1 \in Rendered(q + 1)

(***************************************************************************)
(* C6. Renumbering: the rows of every first-year table are numbered 1..n,  *)
(* n the number of First records of the category; every department         *)
(* heading is followed by exactly the m paragraphs of its (category, year, *)
(* department) group, numbered 1..m; a paragraph that does not follow a    *)
(* paragraph has number 1.                                                 *)
(***************************************************************************)
C6_Renumbering ==
    \A p \in Pos :
       /\ IsTable(p) =>
             /\ Len(doc[p].rows) = Cardinality(Group(doc[p].scope.category_name, "First"))
             /\ \A r \in 1..Len(doc[p].rows) : doc[p].rows[r].num = r
       /\ IsParagraph(p) =>
             doc[p].num = IF IsParagraph(p - 1) THEN doc[p - 1].num + 1 ELSE 1
       /\ (IsHeading(p, 3) /\ doc[p].runs = 1) =>
             LET m == Cardinality(DeptGroup(doc[p].scope.category_name, doc[p].scope.year,
                                            doc[p].text))
             IN  /\ p + m <= Len(doc)
                 /\ \A k \in 1..m : IsParagraph(p + k) /\ doc[p + k].num = k
                 /\ p + m < Len(doc) => ~IsParagraph(p + m + 1)

\* A returned document where a list of two paragraphs is followed by another list.
C6_Witness ==
    /\ pc = "done"
    /\ \E p \in Pos : \E q \in Pos :
          /\ p < q
          /\ IsParagraph(p) /\ doc[p].num = 2
          /\ IsParagraph(q) /\ doc[q].num = 1

(***************************************************************************)
(* C7. Category partition: every record is in exactly one of the buckets   *)
(* Hostel, Dayscholar, Uncategorized; a record whose category is absent or *)
(* another value is in Uncategorized.                                      *)
(***************************************************************************)
InList(list, i) == \E k \in 1..Len(list) : list[k] = i

C7_CategoryPartition ==
    pc # "start" =>
       \A i \in Idx :
          LET b == IF Category(students[i]) \in {"Hostel", "Dayscholar"}
                   THEN Category(students[i]) ELSE "Uncategorized"
          IN  \A c \in Buckets : InList(Get(categorized_students, c), i) <=> (c = b)

(***************************************************************************)
(* C8. Empty input: the call does not fail, and the document holds the     *)
(* title heading "VOLUNTEERS LIST" and nothing else.                       *)
(***************************************************************************)
C8_EmptyInput ==
    students = <<>> =>
       /\ pc # "failed"
       /\ pc # "start" =>
             /\ Len(doc) = 1
             /\ IsHeading(1, 0)
             /\ doc[1].text = "VOLUNTEERS LIST"
       /\ pc = "done" => result = "stream"

C8_Witness == students = <<>> /\ pc = "done" /\ result = "stream" /\ Len(doc) = 1

(***************************************************************************)
(* C9. First-year table: every table stands right under a "First Year"     *)
(* heading and its rows are in ascending order of department, rows of the  *)
(* same department in input order; a returned document has, for each       *)
(* category with First records, exactly one table, with all those records. *)
(***************************************************************************)
C9_FirstYearTable ==
    /\ \A p \in Pos : IsTable(p) =>
          /\ IsHeading(p - 1, 2) /\ doc[p - 1].text = "First Year"
          /\ \A r \in 1..Len(doc[p].rows) :
                doc[p].rows[r].department = students[doc[p].rows[r].student].department
          /\ \A r \in 1..(Len(doc[p].rows) - 1) :
                \/ StrLess(doc[p].rows[r].department, doc[p].rows[r + 1].department)
                \/ /\ doc[p].rows[r].department = doc[p].rows[r + 1].department
                   /\ doc[p].rows[r].student < doc[p].rows[r + 1].student
    /\ pc = "done" =>
          \A c \in Buckets :
             LET T == {p \in Pos : IsTable(p) /\ doc[p].scope.category_name = c}
             IN  IF Group(c, "First") = {} THEN T = {}
                 ELSE /\ Cardinality(T) = 1
                      /\ \A p \in T :
                            /\ Len(doc[p].rows) = Cardinality(Group(c, "First"))
                            /\ Rendered(p) = Group(c, "First")

\* A returned table of three rows: the CSE record that came second, then the two
\* ECE records in their input order.
C9_Witness ==
    /\ pc = "done"
    /\ \E p \in Pos :
          /\ IsTable(p)
          /\ Len(doc[p].rows) = 3
          /\ doc[p].rows[1].student = 2 /\ doc[p].rows[1].department = "CSE"
          /\ doc[p].rows[2].student = 1 /\ doc[p].rows[2].department = "ECE"
          /\ doc[p].rows[3].student = 3 /\ doc[p].rows[3].department = "ECE"

(***************************************************************************)
(* C10. Placement: every list paragraph has its record's department as the *)
(* nearest level-3 heading before it and "<year> Year" as the nearest      *)
(* level-2 heading, every table has "First Year", and a Hostel or          *)
(* Dayscholar record has its category as the nearest level-1 heading; and  *)
(* in a returned document no heading stands for a group that renders no    *)
(* record.                                                                 *)
(***************************************************************************)
HeadingText(p, l) == IF NearestHeading(p, l) = 0 THEN "-" ELSE doc[NearestHeading(p, l)].text

C10_Placement ==
    \A p \in Pos : \A i \in Rendered(p) \ {0} :
       /\ IsParagraph(p) =>
             /\ HeadingText(p, 3) = students[i].department
             /\ \E k \in 1..Len(year_order) :
                   /\ students[i].year = year_order[k]
                   /\ HeadingText(p, 2) = YearHeadingText(year_order[k])
       /\ IsTable(p) =>
             /\ HeadingText(p, 2) = "First Year"
             /\ students[i].year = "First"
       /\ Category(students[i]) \in {"Hostel", "Dayscholar"} =>
             HeadingText(p, 1) = Category(students[i])

C10_NoHeadingOfEmptyGroup ==
    pc = "done" =>
       \A p \in Pos : \A l \in 1..3 :
          IsHeading(p, l) =>
             \E q \in Pos :
                /\ Rendered(q) # {}
                /\ doc[q].scope.category_name = doc[p].scope.category_name
                /\ l >= 2 => doc[q].scope.year = doc[p].scope.year
                /\ l >= 3 => doc[q].scope.dept_name = doc[p].scope.dept_name

C10_PlacementUnderHeadings == C10_Placement /\ C10_NoHeadingOfEmptyGroup

====
